---- MODULE Spec2Model ----
(***************************************************************************)
(* Model of the strategy backtesting engine of TradingLatino:              *)
(*   src/backtesting.py                     MerinoBacktester               *)
(*   src/services/JaimeMerinoIndicators.py  JaimeMerinoSignalGenerator     *)
(*                                                                         *)
(* Units.  Prices are integers.  Money is an integer number of cents, and  *)
(* every float division of the source is an integer division truncated     *)
(* toward zero (Quot).  A price level obtained by a percentage factor      *)
(* (entry * 0.98, ...) is kept multiplied by 100, so that                  *)
(* "price <= stop_loss" reads "price * 100 <= stop_loss".  Times are       *)
(* integer hours since start_date.  The squeeze momentum and the ADX slope *)
(* are kept in tenths.                                                     *)
(*                                                                         *)
(* The values pandas and the ta library compute from the bar window (the   *)
(* two EMAs, ADX and its slope, squeeze momentum, squeeze flag, VPoC       *)
(* distance) are inputs of each bar step, drawn from Snapshots; everything *)
(* the repository decides from them is computed as the code computes it.   *)
(***************************************************************************)
EXTENDS Integers, Sequences, FiniteSets, TLC

\* ------------------------------------------------------------------ bounds
\* bars inside [start_date, end_date] that one run processes, over all its
\* symbols
MaxBars == 3

\* ------------------------------------------------------- program constants
\* MerinoBacktester(initial_capital=10000), in cents
InitialCapital == 1000000
\* minimum signal strength to trade
MinStrength == 50
\* maximum holding time in hours
MaxHoldHours == 48
\* rows a symbol's frame needs: the indicator buffer
MinBars == 100
\* exit_time / exit_price of a trade that is still open (Python None)
None == 0 - 1

Symbols == <<"BTCUSDT", "ETHUSDT">>

\* float division, truncated toward zero
Quot(a, b) == IF a >= 0 THEN a \div b ELSE 0 - ((0 - a) \div b)

Abs(x) == IF x < 0 THEN 0 - x ELSE x

Min(a, b) == IF a <= b THEN a ELSE b

Max(a, b) == IF a >= b THEN a ELSE b

\* ------------------------------------------------- JaimeMerinoIndicators
\* calculate_modified_adx: classification of the current ADX value
AdxStrength(adx) ==
    IF adx > 50 THEN "MUY_FUERTE"
    ELSE IF adx > 35 THEN "FUERTE"
    ELSE IF adx > 25 THEN "MODERADA"
    ELSE "DEBIL"

\* trending from 15 up
AdxTrendingFrom15(adx) == adx > 15

AdxTrending(adx) == adx > 25

\* slope is in tenths: adx_slope > 0.5
AdxStrengthening(slope10) == slope10 > 5

\* the dictionary calculate_modified_adx returns
calculate_modified_adx(adx, slope10) ==
    [adx |-> adx, strength |-> AdxStrength(adx), slope |-> slope10,
     trending |-> AdxTrending(adx), strengthening |-> AdxStrengthening(slope10)]

\* ------------------------------------------- JaimeMerinoSignalGenerator
Bias(ema_11, ema_55) ==
    IF ema_11 > ema_55 THEN "BULLISH"
    ELSE IF ema_11 < ema_55 THEN "BEARISH"
    ELSE "NEUTRAL"

TrendValid(adx_data) == adx_data.trending /\ adx_data.strengthening

\* _determine_signal looking at the squeeze after the LONG and SHORT tests
determine_signal_squeeze_last(bias, trend_valid, momentum10, is_squeeze, price, ema_11) ==
    IF bias = "BULLISH" /\ trend_valid /\ momentum10 > 0
          /\ price * 1000 > ema_11 * 998 THEN "LONG"
    ELSE IF bias = "BEARISH" /\ trend_valid /\ momentum10 < 0
            /\ price * 1000 < ema_11 * 1002 THEN "SHORT"
    ELSE IF is_squeeze THEN "WAIT_SQUEEZE"
    ELSE "WAIT"

\* price > ema_11 * 0.998  and  price < ema_11 * 1.002, times 1000
determine_signal(bias, trend_valid, momentum10, is_squeeze, price, ema_11) ==
    IF is_squeeze THEN "WAIT_SQUEEZE"
    ELSE IF bias = "BULLISH" /\ trend_valid /\ momentum10 > 0
            /\ price * 1000 > ema_11 * 998 THEN "LONG"
    ELSE IF bias = "BEARISH" /\ trend_valid /\ momentum10 < 0
            /\ price * 1000 < ema_11 * 1002 THEN "SHORT"
    ELSE "WAIT"

\* abs((price - ema_11) / ema_11) * 100 compared with 0.5, 1.0 and 2.0
EmaProximityPoints(price, ema_11) ==
    LET d == Abs(price - ema_11) IN
    IF d * 200 < ema_11 THEN 20
    ELSE IF d * 100 < ema_11 THEN 15
    ELSE IF d * 50 < ema_11 THEN 10
    ELSE 0

calculate_merino_strength(signal, adx_data, momentum10, vpoc_distance_pct, price, ema_11) ==
    IF signal \in {"WAIT", "WAIT_SQUEEZE"} THEN 25
    ELSE
      LET adxPts == IF adx_data.strength = "MUY_FUERTE" THEN 40
                    ELSE IF adx_data.strength = "FUERTE" THEN 30
                    ELSE IF adx_data.strength = "MODERADA" THEN 20
                    ELSE 0
          \* int(min(30, abs(momentum) * 10)), momentum in tenths
          momPts == Min(30, Abs(momentum10))
          emaPts == EmaProximityPoints(price, ema_11)
          vpocPts == IF Abs(vpoc_distance_pct) < 2 THEN 10
                     ELSE IF Abs(vpoc_distance_pct) < 5 THEN 5
                     ELSE 0
      IN Min(95, Max(5, adxPts + momPts + emaPts + vpocPts))

\* _calculate_confluence reading the momentum without abs
calculate_confluence_signed(bias, trend_valid, momentum10, vpoc_distance_pct) ==
      (IF bias # "NEUTRAL" THEN 1 ELSE 0)
    + (IF trend_valid THEN 1 ELSE 0)
    + (IF momentum10 > 5 THEN 1 ELSE 0)
    + (IF Abs(vpoc_distance_pct) < 3 THEN 1 ELSE 0)

\* abs(momentum) > 0.5, momentum in tenths
calculate_confluence(bias, trend_valid, momentum10, vpoc_distance_pct) ==
      (IF bias # "NEUTRAL" THEN 1 ELSE 0)
    + (IF trend_valid THEN 1 ELSE 0)
    + (IF Abs(momentum10) > 5 THEN 1 ELSE 0)
    + (IF Abs(vpoc_distance_pct) < 3 THEN 1 ELSE 0)

\* price levels times 1000: price * 0.98 is price * 980, ema_11 * 0.995 is
\* ema_11 * 995; targets is the list [target_1, target_2]
calculate_trading_levels(signal, price, ema_11) ==
    IF signal = "LONG"
    THEN [entry |-> price * 1000,
          targets |-> <<price * 1020, price * 1050>>,
          stop_loss |-> Min(price * 980, ema_11 * 995)]
    ELSE IF signal = "SHORT"
    THEN [entry |-> price * 1000,
          targets |-> <<price * 980, price * 950>>,
          stop_loss |-> Max(price * 1020, ema_11 * 1005)]
    ELSE [entry |-> price * 1000, targets |-> <<>>, stop_loss |-> None]

\* 'trading_levels': {} is the empty function
get_empty_signal ==
    [signal |-> "NO_SIGNAL", signal_strength |-> 0, bias |-> "NEUTRAL",
     trading_levels |-> <<>>, confluence_score |-> 0]

\* snap.fails: a computation inside the try block raises
generate_merino_signal(snap, current_price) ==
    IF snap.fails THEN get_empty_signal
    ELSE
      LET adx_data    == calculate_modified_adx(snap.adx, snap.slope10)
          bias        == Bias(snap.ema_11, snap.ema_55)
          trend_valid == TrendValid(adx_data)
          signal      == determine_signal(bias, trend_valid, snap.momentum10,
                                          snap.squeeze, current_price, snap.ema_11)
      IN [signal |-> signal,
          signal_strength |-> calculate_merino_strength(signal, adx_data,
                                  snap.momentum10, snap.vpoc_distance_pct,
                                  current_price, snap.ema_11),
          bias |-> bias,
          trading_levels |-> calculate_trading_levels(signal, current_price,
                                                      snap.ema_11),
          confluence_score |-> calculate_confluence(bias, trend_valid,
                                  snap.momentum10, snap.vpoc_distance_pct)]

\* ------------------------------------------------------ MerinoBacktester
VARIABLES
    \* position in run_backtest, and the loop indices
    pc, symIdx, barIdx, bars_left, bar_hours,
    \* the fields of MerinoBacktester
    current_capital, trades, open_positions, daily_portfolio_values,
    \* history: the last processed bar of each symbol that holds a position
    last_bar,
    \* history: where the last bar step raised ("none" when it did not)
    last_error,
    \* history: every ADX value computed in this run was below 20
    adx_below_20,
    \* history: every bar of this run closed above the previous bar of its
    \* symbol with the indicators of a LONG signal of strength 90
    rising_long_90,
    \* two backtesters fed with two frames of one symbol, bar by bar
    twin,
    \* the initial_capital the backtester was constructed with
    initial_capital,
    \* what run_backtest returned, or that it raised
    results,
    \* the JSON file save_results wrote, and what load_results returned
    file, loaded,
    \* the last direct call of generate_merino_signal: the series, what the
    \* indicators read from it, and what the call returned
    signal_call,
    \* the last direct call of _check_open_positions: the open trade, the
    \* bar, and the backtester's fields after the call
    exit_call

vars == <<pc, symIdx, barIdx, bars_left, bar_hours,
          current_capital, trades, open_positions, daily_portfolio_values,
          last_bar, last_error, adx_below_20, rising_long_90, twin,
          initial_capital, results, file, loaded, signal_call, exit_call>>

\* one backtester and the run made on it
backtester == <<pc, symIdx, barIdx, bars_left, bar_hours,
                current_capital, trades, open_positions, daily_portfolio_values,
                last_bar, last_error, adx_below_20, rising_long_90,
                initial_capital, results>>

\* the backtester and its files
run == <<backtester, file, loaded, signal_call, exit_call>>

\* what a run of one backtester leaves alone
aux == <<twin, initial_capital, file, loaded, signal_call, exit_call>>

ctl == <<pc, symIdx, bar_hours>>

\* start_date and end_date of the run, in hours; the supplier's frame holds
\* one bar before start_date and then one every bar_hours
start_date == 0

end_date == MaxBars * 24 * 3

\* df.index[i] of the i-th bar after the indicator buffer
BarTime(k, hours) == (k - 1) * hours

\* current_time.hour
HourOf(t) == t % 24

\* if current_time < start_date or current_time > end_date: continue
OutOfRange(t) == t < start_date \/ t > end_date

\* BacktestTrade as _open_position builds it
NewTrade(symbol, entry_time, entry_price, signal_type, signal_strength, confluence_score, position_size) ==
    [symbol |-> symbol,
     entry_time |-> entry_time,
     exit_time |-> None,
     entry_price |-> entry_price,
     exit_price |-> None,
     signal_type |-> signal_type,
     signal_strength |-> signal_strength,
     confluence_score |-> confluence_score,
     position_size |-> position_size,
     stop_loss |-> IF signal_type = "LONG" THEN entry_price * 98 ELSE entry_price * 102,
     target_1  |-> IF signal_type = "LONG" THEN entry_price * 102 ELSE entry_price * 98,
     target_2  |-> IF signal_type = "LONG" THEN entry_price * 105 ELSE entry_price * 95,
     exit_reason |-> "",
     pnl |-> 0,
     pnl_percentage |-> 0,
     max_drawdown |-> 0,
     max_profit |-> 0,
     duration_hours |-> 0,
     risk_reward_achieved |-> 0]

\* the tiers of lines 391-398 with every threshold ten points higher
PositionPercentageShifted(signal_strength) ==
    IF signal_strength >= 90 THEN 5
    ELSE IF signal_strength >= 80 THEN 3
    ELSE IF signal_strength >= 70 THEN 2
    ELSE 1

PositionPercentage(signal_strength) ==
    IF signal_strength >= 80 THEN 5
    ELSE IF signal_strength >= 70 THEN 3
    ELSE IF signal_strength >= 60 THEN 2
    ELSE 1

calculate_position_size(capital, signal_strength) ==
    LET available_capital == Quot(capital * 20, 100)
        position_size == Quot(capital * PositionPercentage(signal_strength), 100)
    IN Min(position_size, available_capital)

\* The backtester state the per-bar calls read and write:
\* st.capital, st.open (dict symbol -> trade), st.trades (ledger)
open_position(st, symbol, entry_time, entry_price, sig) ==
    LET position_size == calculate_position_size(st.capital, sig.signal_strength)
        trade == NewTrade(symbol, entry_time, entry_price, sig.signal,
                          sig.signal_strength, sig.confluence_score, position_size)
    IN [st EXCEPT !.open = (symbol :> trade) @@ st.open,
                  !.capital = st.capital - position_size]

\* the entry test without the strength threshold
TradeableAnyStrength(sig) == sig.signal \in {"LONG", "SHORT"}

\* signal_type in ['LONG', 'SHORT'] and signal_strength >= 50
Tradeable(sig) == sig.signal \in {"LONG", "SHORT"} /\ sig.signal_strength >= MinStrength

\* entry_fails: an exception inside the try block of _check_entry_signal
check_entry_signal(st, symbol, current_time, current_price, snap, entry_fails) ==
    IF entry_fails THEN st
    ELSE LET sig == generate_merino_signal(snap, current_price)
         IN IF Tradeable(sig)
            THEN open_position(st, symbol, current_time, current_price, sig)
            ELSE st

\* (price - entry) / entry for LONG, (entry - price) / entry for SHORT,
\* as numerator over trade.entry_price
\* the price delta of a LONG taken for both directions
DeltaLongOnly(trade, price) == price - trade.entry_price

Delta(trade, price) ==
    IF trade.signal_type = "LONG" THEN price - trade.entry_price
    ELSE trade.entry_price - price

\* _close_position without the del of line 514
close_position_keeping(st, symbol, exit_time, exit_price, exit_reason) ==
    LET trade == st.open[symbol]
        closed == [trade EXCEPT !.exit_time = exit_time,
                                !.exit_price = exit_price,
                                !.exit_reason = exit_reason]
    IN [capital |-> st.capital + trade.position_size,
        trades  |-> Append(st.trades, closed),
        open    |-> st.open]

\* _close_position stamping the trade with the hour after the bar
close_position_hour_later(st, symbol, exit_time, exit_price, exit_reason) ==
    LET trade == st.open[symbol]
        closed == [trade EXCEPT !.exit_time = exit_time + 1,
                                !.exit_price = exit_price,
                                !.exit_reason = exit_reason]
    IN [capital |-> st.capital + trade.position_size,
        trades  |-> Append(st.trades, closed),
        open    |-> [s \in DOMAIN st.open \ {symbol} |-> st.open[s]]]

close_position(st, symbol, exit_time, exit_price, exit_reason) ==
    LET trade == st.open[symbol]
        pnl == Quot(Delta(trade, exit_price) * trade.position_size, trade.entry_price)
        risk100 == Abs(trade.entry_price * 100 - trade.stop_loss)
        closed == [trade EXCEPT
                     !.exit_time = exit_time,
                     !.exit_price = exit_price,
                     !.exit_reason = exit_reason,
                     !.duration_hours = exit_time - trade.entry_time,
                     \* in basis points
                     !.pnl_percentage = Quot(Delta(trade, exit_price) * 10000,
                                             trade.entry_price),
                     !.pnl = pnl,
                     \* reward / risk, times 100
                     !.risk_reward_achieved =
                         IF risk100 > 0
                         THEN Quot(Abs(exit_price - trade.entry_price) * 10000, risk100)
                         ELSE 0]
    IN [capital |-> st.capital + trade.position_size + pnl,
        trades  |-> Append(st.trades, closed),
        open    |-> [s \in DOMAIN st.open \ {symbol} |-> st.open[s]]]

StopLossHit(trade, price) ==
    \/ trade.signal_type = "LONG"  /\ price * 100 <= trade.stop_loss
    \/ trade.signal_type = "SHORT" /\ price * 100 >= trade.stop_loss

TargetReason(trade, price) ==
    IF trade.signal_type = "LONG"
    THEN IF price * 100 >= trade.target_2 THEN "TARGET_2"
         ELSE IF price * 100 >= trade.target_1 THEN "TARGET_1"
         ELSE ""
    ELSE IF price * 100 <= trade.target_2 THEN "TARGET_2"
         ELSE IF price * 100 <= trade.target_1 THEN "TARGET_1"
         ELSE ""

\* the invalidation test with the buffer on the other side of the EMA
InvalidatedBufferInside(trade, price, ema_11) ==
    \/ trade.signal_type = "LONG"  /\ price * 1000 < ema_11 * 1005
    \/ trade.signal_type = "SHORT" /\ price * 1000 > ema_11 * 995

\* current_price < ema_11 * 0.995 (LONG), > ema_11 * 1.005 (SHORT)
Invalidated(trade, price, ema_11) ==
    \/ trade.signal_type = "LONG"  /\ price * 1000 < ema_11 * 995
    \/ trade.signal_type = "SHORT" /\ price * 1000 > ema_11 * 1005

\* the time limit with >= in place of >
TimeLimitHitInclusive(duration) == duration >= MaxHoldHours

TimeLimitHit(duration) == duration > MaxHoldHours

\* the exit conditions with the time limit looked at before the EMA
ExitReasonTimeLimitFirst(trade, current_time, price, ema_11) ==
    IF StopLossHit(trade, price) THEN "STOP_LOSS"
    ELSE IF TargetReason(trade, price) # "" THEN TargetReason(trade, price)
    ELSE IF TimeLimitHit(current_time - trade.entry_time) THEN "TIME_LIMIT"
    ELSE IF Invalidated(trade, price, ema_11) THEN "INVALIDATION"
    ELSE ""

ExitReason(trade, current_time, price, ema_11) ==
    IF StopLossHit(trade, price) THEN "STOP_LOSS"
    ELSE IF TargetReason(trade, price) # "" THEN TargetReason(trade, price)
    ELSE IF Invalidated(trade, price, ema_11) THEN "INVALIDATION"
    ELSE IF TimeLimitHit(current_time - trade.entry_time) THEN "TIME_LIMIT"
    ELSE ""

\* max_profit / max_drawdown of the open trade, updated in place
UpdateExcursion(trade, price) ==
    LET current_pnl_usd == Quot(Delta(trade, price) * trade.position_size,
                                trade.entry_price)
    IN [trade EXCEPT
          !.max_profit = IF current_pnl_usd > trade.max_profit
                         THEN current_pnl_usd ELSE trade.max_profit,
          !.max_drawdown = IF current_pnl_usd < 0 - Abs(trade.max_drawdown)
                           THEN Abs(current_pnl_usd) ELSE trade.max_drawdown]

check_open_positions(st, symbol, current_time, current_price, ema_11) ==
    IF symbol \notin DOMAIN st.open THEN st
    ELSE
      LET trade == UpdateExcursion(st.open[symbol], current_price)
          st1 == [st EXCEPT !.open[symbol] = trade]
          exit_reason == ExitReason(trade, current_time, current_price, ema_11)
      IN IF exit_reason # ""
         THEN close_position(st1, symbol, current_time, current_price, exit_reason)
         ELSE st1

\* the bar loop without the guard of line 223
FlatUnguarded(st, symbol) == TRUE

\* if symbol not in self.open_positions
Flat(st, symbol) == symbol \notin DOMAIN st.open

RECURSIVE SumSizes(_, _)
SumSizes(open, syms) ==
    IF syms = {} THEN 0
    ELSE LET s == CHOOSE x \in syms : TRUE
         IN open[s].position_size + SumSizes(open, syms \ {s})

\* the portfolio value without the open positions
calculate_portfolio_value_cash(st) == st.capital

calculate_portfolio_value(st) == st.capital + SumSizes(st.open, DOMAIN st.open)

\* ----------------------------------------------------------------- inputs
\* the bars the supplier can deliver: low <= close <= high
BarSet ==
    { [low |-> 95,  close |-> 96,  high |-> 97],
      [low |-> 97,  close |-> 100, high |-> 103],
      [low |-> 100, close |-> 101, high |-> 102] }

\* what the indicator libraries can report for the window ending at a bar
\* whose close is `price`: the bullish and bearish trend snapshots, and the
\* bullish one with one or two readings changed
Snapshots(price) ==
    [ ema_11 : {price}, ema_55 : {price - 1, price + 1}, adx : {18, 55},
      slope10 : {10}, momentum10 : {40}, squeeze : {FALSE},
      vpoc_distance_pct : {6}, fails : {FALSE} ]
    \cup
    [ ema_11 : {price}, ema_55 : {price - 1, price}, adx : {30},
      slope10 : {0, 10}, momentum10 : {3}, squeeze : {FALSE},
      vpoc_distance_pct : {6}, fails : {FALSE} ]
    \cup
    [ ema_11 : {price}, ema_55 : {price - 1}, adx : {18, 55},
      slope10 : {10}, momentum10 : {3}, squeeze : BOOLEAN,
      vpoc_distance_pct : {6}, fails : BOOLEAN ]
    \cup
    [ ema_11 : {price, price - 3}, ema_55 : {price + 1}, adx : {55},
      slope10 : {10}, momentum10 : {0 - 40}, squeeze : {FALSE},
      vpoc_distance_pct : {1}, fails : {FALSE} ]

\* the fast EMA the exit check computes from the same window
Ema11s(price) == {price - 3, price, price + 3}

\* hours between two bars of the supplier's frame (timeframe '1d', '3d')
BarHours == {24, 72}

St == [capital |-> current_capital, open |-> open_positions, trades |-> trades]

CurrentSymbol == Symbols[symIdx]

CurrentTime == BarTime(barIdx, bar_hours)

\* the bar closes above the symbol's previous bar (or is its first bar)
Rising(b) ==
    CurrentSymbol \in DOMAIN last_bar => b.close > last_bar[CurrentSymbol].close

\* generate_merino_signal reports LONG, strength 90, no squeeze
Long90(snap, price) ==
    LET sig == generate_merino_signal(snap, price)
    IN sig.signal = "LONG" /\ sig.signal_strength = 90 /\ ~snap.squeeze

\* last_bar after a bar step of the current symbol at time t
LastBar(st, b, t) ==
    IF Flat(st, CurrentSymbol)
    THEN [s \in DOMAIN last_bar \ {CurrentSymbol} |-> last_bar[s]]
    ELSE (CurrentSymbol :>
            [low |-> b.low, close |-> b.close, high |-> b.high, time |-> t])
         @@ last_bar

\* _check_entry_signal without its try block
CaughtAtSymbolOnly(where) == "symbol"

\* Where an exception raised in a bar step is caught: "bar" when the try
\* block of the called method catches it and the bar loop goes on, "symbol"
\* when it reaches the except of _process_symbol_backtest, which wraps the
\* whole bar loop
CaughtAt(where) ==
    IF where = "entry" THEN "bar" ELSE "symbol"

\* pc and symIdx after a bar step that raised in `where`
AfterError(where) ==
    IF CaughtAt(where) = "bar"
    THEN /\ pc' = "bars"
         /\ symIdx' = symIdx
         /\ barIdx' = barIdx + 1
    ELSE /\ pc' = "symbol"
         /\ symIdx' = symIdx + 1
         /\ barIdx' = barIdx

\* what binance_service.get_klines can return: None (here None), no rows,
\* fewer rows than the buffer, or the buffer and the bars of the test range
Klines == {None, 0, MinBars - 1, MinBars + 1 + MaxBars}

\* _get_historical_data: None unless the supplier returned rows; the rows
\* of the requested window otherwise (the frame is known by its length)
get_historical_data(klines) ==
    IF klines # None /\ klines > 0 THEN klines ELSE None

\* the test of line 203 without the length
InsufficientNoneOnly(df) == df = None

\* if df is None or len(df) < 100: return
Insufficient(df) == df = None \/ df < MinBars

\* ------------------------------------------------------ _calculate_results
\* Rates, percentages and daily returns are kept in hundredths of a
\* percent, ratios in hundredths

\* a trade counted as winning when it broke even
IsWinOrEven(trade) == trade.pnl >= 0

\* t.pnl > 0
IsWin(trade) == trade.pnl > 0

HighStrength(trade) == trade.signal_strength >= 80

\* the medium bucket starting at 70
MediumStrengthFrom70(trade) == 70 <= trade.signal_strength /\ trade.signal_strength < 80

MediumStrength(trade) == 60 <= trade.signal_strength /\ trade.signal_strength < 80

LowStrength(trade) == 50 <= trade.signal_strength /\ trade.signal_strength < 60

FourConfluence(trade) == trade.confluence_score = 4

ThreeConfluence(trade) == trade.confluence_score = 3

TwoConfluence(trade) == trade.confluence_score = 2

\* len([t for t in ts if t.pnl > 0])
Winning(ts) == Len(SelectSeq(ts, IsWin))

\* (wins / total * 100) if total > 0 else 0
WinRate(wins, total) == IF total > 0 THEN Quot(wins * 10000, total) ELSE 0

\* The loop of lines 565-571 from sample k on.  zero_div: the division of
\* line 569 met peak = 0.  With numpy operands that division gives nan,
\* which is never greater than max_dd, and the loop goes on
RECURSIVE DrawdownLoop(_, _, _, _)
DrawdownLoop(values, k, peak, max_dd) ==
    IF k > Len(values) THEN [peak |-> peak, max_dd |-> max_dd, zero_div |-> FALSE]
    ELSE LET value == values[k][2]
             peak1 == IF value > peak THEN value ELSE peak
         IN IF peak1 = 0
            THEN [DrawdownLoop(values, k + 1, peak1, max_dd) EXCEPT !.zero_div = TRUE]
            ELSE LET dd == Quot((peak1 - value) * 10000, peak1)
                 IN DrawdownLoop(values, k + 1, peak1, IF dd > max_dd THEN dd ELSE max_dd)

\* the daily returns of lines 609-613; a zero prev_value is reported apart
ZeroPrevValue(values) == \E k \in 1 .. Len(values) - 1 : values[k][2] = 0

Returns(values) ==
    [k \in 1 .. Len(values) - 1 |->
        Quot((values[k + 1][2] - values[k][2]) * 10000, values[k][2])]

RECURSIVE SumSeq(_, _)
SumSeq(seq, k) == IF k > Len(seq) THEN 0 ELSE seq[k] + SumSeq(seq, k + 1)

\* the largest r in lo .. hi with r * r <= n
RECURSIVE Isqrt(_, _, _)
Isqrt(n, lo, hi) ==
    IF lo >= hi THEN lo
    ELSE LET mid == Quot(lo + hi + 1, 2)
         IN IF mid * mid <= n THEN Isqrt(n, mid, hi) ELSE Isqrt(n, lo, mid - 1)

\* np.mean(returns) / np.std(returns) * np.sqrt(365) if np.std(returns) > 0
\* else 0; the standard deviation is positive when two returns differ
SharpeRatio(returns) ==
    LET n == Len(returns)
        mean == Quot(SumSeq(returns, 1), n)
        variance == Quot(SumSeq([k \in 1 .. n |-> (returns[k] - mean) * (returns[k] - mean)], 1), n)
        std == Max(Isqrt(variance, 0, 40000), 1)
    IN IF \E j \in 1 .. n : \E k \in 1 .. n : returns[j] # returns[k]
       THEN Quot(mean * 1911, std)
       ELSE 0

\* run_backtest has returned nothing yet
NoResults ==
    [status |-> "none", nan |-> {}, start_date |-> None, end_date |-> None,
     total_trades |-> 0, winning_trades |-> 0, losing_trades |-> 0, win_rate |-> 0,
     final_capital |-> 0, total_return |-> 0, total_return_percentage |-> 0,
     max_drawdown |-> 0, max_drawdown_percentage |-> 0,
     sharpe_ratio |-> 0, calmar_ratio |-> 0,
     high_strength_trades |-> 0, medium_strength_trades |-> 0, low_strength_trades |-> 0,
     high_strength_win_rate |-> 0, medium_strength_win_rate |-> 0, low_strength_win_rate |-> 0,
     four_confluence_trades |-> 0, three_confluence_trades |-> 0, two_confluence_trades |-> 0,
     four_confluence_win_rate |-> 0, three_confluence_win_rate |-> 0, two_confluence_win_rate |-> 0]

\* What _calculate_results can do on the fields st of a backtester
\* constructed with capital0: return a summary, or raise (status "raised").
\* A division by zero raises ZeroDivisionError when its operands are Python
\* numbers and gives nan when one is a numpy float.  The capital is a numpy
\* float from the first close on (the prices of the frame are); an equity
\* sample is one or the other, so that a zero peak or a zero prev_value has
\* both outcomes
calculate_results(st, capital0) ==
    LET ts == st.trades
        total_trades == Len(ts)
        winning_trades == Winning(ts)
        total_return == st.capital - capital0
        loop == DrawdownLoop(st.values, 1, capital0, 0)
        high == SelectSeq(ts, HighStrength)
        medium == SelectSeq(ts, MediumStrength)
        low == SelectSeq(ts, LowStrength)
        four == SelectSeq(ts, FourConfluence)
        three == SelectSeq(ts, ThreeConfluence)
        two == SelectSeq(ts, TwoConfluence)
        total_return_percentage ==
            IF capital0 = 0 THEN 0 ELSE Quot(total_return * 10000, capital0)
        max_drawdown_percentage == IF st.values = <<>> THEN 0 ELSE loop.max_dd
        sharpe_ratio ==
            IF Len(st.values) < 2 \/ ZeroPrevValue(st.values) THEN 0
            ELSE SharpeRatio(Returns(st.values))
        raised == [NoResults EXCEPT !.status = "raised"]
        returned ==
        [status |-> "returned",
         start_date |-> start_date,
         end_date |-> end_date,
         nan |-> IF capital0 = 0 THEN {"total_return_percentage"} ELSE {},
         total_trades |-> total_trades,
         winning_trades |-> winning_trades,
         losing_trades |-> total_trades - winning_trades,
         win_rate |-> WinRate(winning_trades, total_trades),
         final_capital |-> st.capital,
         total_return |-> total_return,
         total_return_percentage |-> total_return_percentage,
         max_drawdown |-> Quot(max_drawdown_percentage * loop.peak, 10000),
         max_drawdown_percentage |-> max_drawdown_percentage,
         sharpe_ratio |-> sharpe_ratio,
         calmar_ratio |-> IF max_drawdown_percentage > 0 /\ capital0 # 0
                          THEN Quot(total_return_percentage * 100, max_drawdown_percentage)
                          ELSE 0,
         high_strength_trades |-> Len(high),
         medium_strength_trades |-> Len(medium),
         low_strength_trades |-> Len(low),
         high_strength_win_rate |-> WinRate(Winning(high), Len(high)),
         medium_strength_win_rate |-> WinRate(Winning(medium), Len(medium)),
         low_strength_win_rate |-> WinRate(Winning(low), Len(low)),
         four_confluence_trades |-> Len(four),
         three_confluence_trades |-> Len(three),
         two_confluence_trades |-> Len(two),
         four_confluence_win_rate |-> WinRate(Winning(four), Len(four)),
         three_confluence_win_rate |-> WinRate(Winning(three), Len(three)),
         two_confluence_win_rate |-> WinRate(Winning(two), Len(two))]
    IN IF capital0 = 0 /\ ts = <<>> THEN {raised}
       ELSE IF loop.zero_div \/ ZeroPrevValue(st.values) THEN {raised, returned}
       ELSE {returned}

\* ------------------------------------------------ save_results, load_results
\* datetime.isoformat(): the date and the time of day, 'YYYY-MM-DDTHH:MM:SS'
isoformat(t) == [date |-> t \div 24, time |-> t % 24]

\* datetime.fromisoformat()
fromisoformat(text) == text.date * 24 + text.time

\* the JSON text of a number: its sign and its digits
json_number(x) == [minus |-> x < 0, digits |-> Abs(x)]

\* the number json.load reads from that text
number_of_json(text) == IF text.minus THEN 0 - text.digits ELSE text.digits

\* JSON null
null == [null |-> TRUE]

TimeFields == {"entry_time", "exit_time", "start_date", "end_date"}

TextFields == {"symbol", "signal_type", "exit_reason", "status", "nan"}

\* to_dict that writes no exit_time
to_dict_without_exit_time(object) ==
    [f \in DOMAIN object |->
        IF f = "exit_time" THEN null
        ELSE IF f \in TimeFields THEN isoformat(object[f])
        ELSE IF f \in TextFields THEN object[f]
        ELSE json_number(object[f])]

\* BacktestTrade.to_dict and BacktestResults.to_dict as json.dump writes
\* them: asdict, the datetime fields through isoformat, exit_time and
\* exit_price null when they are None
to_dict(object) ==
    [f \in DOMAIN object |->
        IF f \in {"exit_time", "exit_price"} /\ object[f] = None THEN null
        ELSE IF f \in TimeFields THEN isoformat(object[f])
        ELSE IF f \in TextFields THEN object[f]
        ELSE json_number(object[f])]

\* the object load_results builds from a dictionary of the file: the dates
\* through fromisoformat, exit_time only when it is not null
from_dict(dict) ==
    [f \in DOMAIN dict |->
        IF f \in TextFields THEN dict[f]
        ELSE IF DOMAIN dict[f] = DOMAIN null THEN None
        ELSE IF f \in TimeFields THEN fromisoformat(dict[f])
        ELSE number_of_json(dict[f])]

\* no file written, nothing loaded
NoFile == [results |-> <<>>, trades |-> <<>>]

\* ------------------------------------------ generate_merino_signal alone
\* the series generate_merino_signal can be handed: None, a frame without
\* rows, a frame shorter than the windows of the indicators, a full frame
SeriesKinds == {"none", "empty", "short", "full"}

\* the current_price of a call: the closes of the bars, and a price on
\* which 0.2% is more than one unit
WidePrice == 1000

SignalPrices == {b.close : b \in BarSet} \cup {WidePrice}

\* readings of a trend that has carried the price 3% away from the fast EMA
FarEmaReadings(price) ==
    [ ema_11 : {price - 3, price + 3}, ema_55 : {price - 4, price + 4},
      adx : {30}, slope10 : {10}, momentum10 : {0 - 40, 40},
      squeeze : {FALSE}, vpoc_distance_pct : {1}, fails : {FALSE} ]

\* readings of a full series around the thresholds of _determine_signal,
\* _calculate_confluence and _calculate_trading_levels, for the price on
\* which the fast EMA can be within 0.2%
SignalReadings(price) ==
    IF price # WidePrice THEN {}
    ELSE [ ema_11 : {price - 3, price - 1, price + 1, price + 3},
           ema_55 : {price - 4, price + 1, price + 4}, adx : {18, 30},
           slope10 : {0, 10}, momentum10 : {0 - 40, 0 - 3, 3, 40},
           squeeze : BOOLEAN, vpoc_distance_pct : {0 - 4, 1}, fails : {FALSE} ]

\* What the steps of the try block (lines 238-252) give on a series of that
\* kind whose last close is price.  On None and on a frame without rows the
\* first step raises (line 238).  On a short frame the exponential averages
\* exist, calculate_modified_adx falls back to ADX 0 with slope 0 or reads
\* nan, and the rolling windows of calculate_squeeze_momentum are all nan:
\* no squeeze, and a momentum for which every comparison is false, as for 0
SeriesReadings(kind, price) ==
    IF kind = "full"
    THEN Snapshots(price) \cup SignalReadings(price) \cup FarEmaReadings(price)
    ELSE IF kind = "short"
    THEN [ ema_11 : {price - 3, price, price + 3},
           ema_55 : {price - 1, price, price + 1}, adx : {0},
           slope10 : {0}, momentum10 : {0}, squeeze : {FALSE},
           vpoc_distance_pct : {1, 6}, fails : {FALSE} ]
    ELSE { snap \in Snapshots(price) : snap.fails }

\* no call made
NoCall == [kind |-> "", price |-> 0, readings |-> <<>>, result |-> get_empty_signal]

\* --------------------------------------------- _check_open_positions alone
\* closes of the bars on which an open position is checked; the last one is
\* a bar that closes at 22 times the entry price
ExitPrices == {94, 98, 99, 100, 102, 105, 2200}

\* the times of those bars
ExitTimes == {24, 48, 72}

\* a backtester holding one position, opened at time 0 and price 100 on a
\* signal with these readings
HoldingOne(snap) ==
    open_position([capital |-> InitialCapital, open |-> <<>>, trades |-> <<>>],
                  Symbols[1], 0, 100, generate_merino_signal(snap, 100))

\* no call made
NoExitCall ==
    [trade |-> <<>>, current_time |-> 0, current_price |-> 0, ema_11 |-> 0,
     after |-> [capital |-> InitialCapital, open |-> <<>>, trades |-> <<>>]]

\* the fields of a MerinoBacktester after __init__
Fresh == [capital |-> InitialCapital, open |-> <<>>, trades |-> <<>>, values |-> <<>>]

\* two backtesters on which run_backtest has not been called: no frame is
\* fetched, run counts the calls, returned says that the call has returned,
\* differs that the run b completed before was another run than this one
NoTwin ==
    [df_a |-> <<>>, df_b |-> <<>>, i |-> 0, a |-> Fresh, b |-> Fresh,
     run |-> 0, returned |-> FALSE, differs |-> FALSE]

\* ---------------------------------------------------------------- actions
\* MerinoBacktester(initial_capital = capital), before any call
Construct(capital) ==
    /\ initial_capital = capital
    /\ pc = "idle"
    /\ symIdx = 0
    /\ barIdx = 0
    /\ bars_left = MaxBars
    /\ bar_hours \in BarHours
    /\ current_capital = initial_capital
    /\ trades = <<>>
    /\ open_positions = <<>>
    /\ daily_portfolio_values = <<>>
    /\ last_bar = <<>>
    /\ last_error = "none"
    /\ adx_below_20 = TRUE
    /\ rising_long_90 = TRUE
    /\ twin = NoTwin
    /\ results = NoResults
    /\ file = NoFile
    /\ loaded = NoFile
    /\ signal_call = NoCall
    /\ exit_call = NoExitCall

Init == Construct(InitialCapital)

\* run_backtest up to the symbol loop: _reset_backtest
RunBacktest ==
    /\ UNCHANGED <<aux, results>>
    /\ pc = "idle"
    /\ current_capital' = initial_capital
    /\ trades' = <<>>
    /\ open_positions' = <<>>
    /\ daily_portfolio_values' = <<>>
    /\ symIdx' = 1
    /\ pc' = "symbol"
    /\ last_error' = "none"
    /\ UNCHANGED <<barIdx, bars_left, bar_hours, last_bar,
                   adx_below_20, rising_long_90>>

\* _process_symbol_backtest up to the bar loop.  With insufficient data the
\* symbol is skipped.  Otherwise the frame holds, after the 100-bar indicator
\* buffer, one bar before start_date and then the bars in range; where the
\* frame ends is decided by EndSymbol
GetHistoricalData ==
    /\ UNCHANGED <<aux, results>>
    /\ pc = "symbol"
    /\ symIdx <= Len(Symbols)
    /\ \E klines \in Klines :
          IF Insufficient(get_historical_data(klines))
          THEN /\ pc' = "symbol"
               /\ symIdx' = symIdx + 1
               /\ barIdx' = barIdx
               /\ last_error' = "data"
          ELSE /\ pc' = "bars"
               /\ symIdx' = symIdx
               /\ barIdx' = 0
               /\ last_error' = "none"
    /\ UNCHANGED <<bars_left, bar_hours, current_capital, trades,
                   open_positions, daily_portfolio_values, last_bar,
                   adx_below_20, rising_long_90>>

\* a bar outside [start_date, end_date]: continue
SkipBar ==
    /\ UNCHANGED <<aux, results>>
    /\ pc = "bars"
    /\ OutOfRange(CurrentTime)
    /\ barIdx' = barIdx + 1
    /\ last_error' = "none"
    /\ UNCHANGED <<ctl, bars_left, current_capital, trades, open_positions,
                   daily_portfolio_values, last_bar,
                   adx_below_20, rising_long_90>>

\* the equity sample of lines 226-229
Sample(st, t) ==
    IF HourOf(t) = 0
    THEN Append(daily_portfolio_values, <<t, calculate_portfolio_value(st)>>)
    ELSE daily_portfolio_values

\* the frame holds one more bar, inside the range
BarGuard ==
    /\ pc = "bars"
    /\ bars_left > 0
    /\ ~OutOfRange(CurrentTime)

\* one iteration of the bar loop (lines 215-229) on a bar where the symbol
\* stays in open_positions after the exit check
ProcessBarHolding ==
    /\ UNCHANGED <<aux, results>>
    /\ BarGuard
    /\ \E b \in BarSet :
       \E ema_11 \in Ema11s(b.close) :
         LET st1 == check_open_positions(St, CurrentSymbol, CurrentTime, b.close, ema_11)
         IN /\ ~Flat(st1, CurrentSymbol)
            /\ current_capital' = st1.capital
            /\ open_positions' = st1.open
            /\ trades' = st1.trades
            /\ daily_portfolio_values' = Sample(st1, CurrentTime)
            /\ last_bar' = LastBar(st1, b, CurrentTime)
            /\ rising_long_90' = (rising_long_90 /\ Rising(b) /\ ema_11 <= b.close)
    /\ barIdx' = barIdx + 1
    /\ bars_left' = bars_left - 1
    /\ last_error' = "none"
    /\ UNCHANGED <<ctl, adx_below_20>>

\* one iteration of the bar loop on a bar where the symbol is flat after the
\* exit check, so that a signal is generated
ProcessBarFlat ==
    /\ UNCHANGED <<aux, results>>
    /\ BarGuard
    /\ \E b \in BarSet :
       \E snap \in Snapshots(b.close) :
         LET st1 == check_open_positions(St, CurrentSymbol, CurrentTime, b.close,
                                         snap.ema_11)
             st2 == check_entry_signal(st1, CurrentSymbol, CurrentTime, b.close,
                                       snap, FALSE)
         IN /\ Flat(st1, CurrentSymbol)
            /\ current_capital' = st2.capital
            /\ open_positions' = st2.open
            /\ trades' = st2.trades
            /\ daily_portfolio_values' = Sample(st2, CurrentTime)
            /\ last_bar' = LastBar(st2, b, CurrentTime)
            /\ adx_below_20' = (adx_below_20 /\ snap.adx < 20)
            /\ rising_long_90' = (rising_long_90 /\ Rising(b) /\ Long90(snap, b.close))
    /\ barIdx' = barIdx + 1
    /\ bars_left' = bars_left - 1
    /\ last_error' = "none"
    /\ UNCHANGED ctl

\* a bar on which _check_open_positions raises outside its inner try, before
\* it has changed the trade: nothing catches it inside the bar loop
ProcessBarExitError ==
    /\ UNCHANGED <<aux, results>>
    /\ BarGuard
    /\ CurrentSymbol \in DOMAIN open_positions
    /\ AfterError("exit")
    /\ bars_left' = bars_left - 1
    /\ last_error' = "exit"
    /\ rising_long_90' = FALSE
    /\ UNCHANGED <<bar_hours, current_capital, trades, open_positions,
                   daily_portfolio_values, last_bar, adx_below_20>>

\* a bar on which the try block of _check_entry_signal raises: no position
\* is opened, the equity sample is taken
ProcessBarEntryError ==
    /\ UNCHANGED <<aux, results>>
    /\ BarGuard
    /\ \E b \in BarSet :
       \E ema_11 \in Ema11s(b.close) :
         LET st1 == check_open_positions(St, CurrentSymbol, CurrentTime, b.close, ema_11)
             st2 == check_entry_signal(st1, CurrentSymbol, CurrentTime, b.close,
                                       [fails |-> TRUE], TRUE)
         IN /\ Flat(st1, CurrentSymbol)
            /\ current_capital' = st2.capital
            /\ open_positions' = st2.open
            /\ trades' = st2.trades
            /\ daily_portfolio_values' = Sample(st2, CurrentTime)
            /\ last_bar' = LastBar(st2, b, CurrentTime)
    /\ AfterError("entry")
    /\ bars_left' = bars_left - 1
    /\ last_error' = "entry"
    /\ rising_long_90' = FALSE
    /\ UNCHANGED <<bar_hours, adx_below_20>>

\* a bar on which the equity sample (lines 226-229) raises, after the exit
\* and entry checks have run
ProcessBarEquityError ==
    /\ UNCHANGED <<aux, results>>
    /\ BarGuard
    /\ \E b \in BarSet :
       \E snap \in Snapshots(b.close) :
         LET st1 == check_open_positions(St, CurrentSymbol, CurrentTime, b.close,
                                         snap.ema_11)
             st2 == IF Flat(st1, CurrentSymbol)
                    THEN check_entry_signal(st1, CurrentSymbol, CurrentTime,
                                            b.close, snap, FALSE)
                    ELSE st1
         IN /\ current_capital' = st2.capital
            /\ open_positions' = st2.open
            /\ trades' = st2.trades
            /\ last_bar' = LastBar(st2, b, CurrentTime)
            /\ adx_below_20' = (adx_below_20 /\ (Flat(st1, CurrentSymbol) => snap.adx < 20))
    /\ AfterError("equity")
    /\ bars_left' = bars_left - 1
    /\ last_error' = "equity"
    /\ rising_long_90' = FALSE
    /\ UNCHANGED <<bar_hours, daily_portfolio_values>>

\* the bar loop of a symbol is exhausted (i = len(df)): next symbol
EndSymbol ==
    /\ UNCHANGED <<aux, results>>
    /\ pc = "bars"
    /\ ~OutOfRange(CurrentTime)
    /\ symIdx' = symIdx + 1
    /\ pc' = "symbol"
    /\ last_error' = "none"
    /\ UNCHANGED <<barIdx, bars_left, bar_hours, current_capital, trades,
                   open_positions, daily_portfolio_values, last_bar,
                   adx_below_20, rising_long_90>>

\* last_price = self.open_positions[symbol].entry_price
LastKnownPrice(trade) == trade.entry_price

\* _close_all_positions called with start_date
EndOfTestAtStart == start_date

\* self._close_all_positions(end_date)
EndOfTestTime == end_date

RECURSIVE CloseAll(_, _)
CloseAll(st, syms) ==
    IF syms = {} THEN st
    ELSE LET s == CHOOSE x \in syms : TRUE
         IN CloseAll(close_position(st, s, EndOfTestTime,
                                    LastKnownPrice(st.open[s]), "END_OF_TEST"),
                     syms \ {s})

\* _close_all_positions that returns without closing anything
close_all_positions_none(st) == st

close_all_positions(st) == CloseAll(st, DOMAIN st.open)

\* run_backtest after the symbol loop (lines 161-170):
\* _close_all_positions(end_date), then _calculate_results, whose value is
\* returned and whose exception is raised again by line 174
CloseAllPositions ==
    /\ UNCHANGED aux
    /\ pc = "symbol"
    /\ symIdx > Len(Symbols)
    /\ \E st \in {close_all_positions(St)} :
       \E res \in calculate_results([capital |-> st.capital, open |-> st.open,
                                     trades |-> st.trades,
                                     values |-> daily_portfolio_values],
                                    initial_capital) :
          /\ current_capital' = st.capital
          /\ open_positions' = st.open
          /\ trades' = st.trades
          /\ results' = res
          /\ pc' = IF res.status = "raised" THEN "raised" ELSE "done"
    /\ last_error' = "none"
    /\ UNCHANGED <<symIdx, barIdx, bars_left, bar_hours, daily_portfolio_values,
                   last_bar, adx_below_20, rising_long_90>>

Next ==
    \/ RunBacktest
    \/ GetHistoricalData
    \/ SkipBar
    \/ ProcessBarHolding
    \/ ProcessBarFlat
    \/ EndSymbol
    \/ CloseAllPositions

\* runs in which no bar step raises
Spec == Init /\ [][Next]_vars

NextErr ==
    \/ Next
    \/ ProcessBarExitError
    \/ ProcessBarEntryError
    \/ ProcessBarEquityError

\* _open_position called for the symbol of the bar loop while that symbol
\* has an open position: line 367 stores the new trade under the symbol and
\* line 370 debits its size; nothing in lines 325-375 looks at the entry
\* that is there.  A call counts against the bars of the run
OpenPositionAgain ==
    /\ UNCHANGED <<aux, results>>
    /\ BarGuard
    /\ CurrentSymbol \in DOMAIN open_positions
    /\ \E b \in BarSet :
       \E snap \in {x \in Snapshots(b.close) : Long90(x, b.close)} :
         LET st1 == open_position(St, CurrentSymbol, CurrentTime, b.close,
                                  generate_merino_signal(snap, b.close))
         IN /\ current_capital' = st1.capital
            /\ open_positions' = st1.open
            /\ trades' = st1.trades
    /\ bars_left' = bars_left - 1
    /\ last_error' = "reopen"
    /\ rising_long_90' = FALSE
    /\ UNCHANGED <<ctl, barIdx, daily_portfolio_values, last_bar, adx_below_20>>

NextCalls ==
    \/ Next
    \/ OpenPositionAgain

\* runs over a daily frame in which bar steps may raise
InitErr == Init /\ bar_hours = 24

SpecErr == InitErr /\ [][NextErr]_vars

\* runs over a daily frame during which _open_position is also called
\* directly
SpecCalls == InitErr /\ [][NextCalls]_vars

\* save_results(results) after run_backtest has returned
SaveResults ==
    /\ pc = "done"
    /\ file = NoFile
    /\ file' = [results |-> to_dict(results),
                trades |-> [k \in DOMAIN trades |-> to_dict(trades[k])]]
    /\ UNCHANGED <<backtester, twin, loaded, signal_call, exit_call>>

\* load_results of the file written
LoadResults ==
    /\ file # NoFile
    /\ loaded = NoFile
    /\ loaded' = [results |-> from_dict(file.results),
                  trades |-> [k \in DOMAIN file.trades |-> from_dict(file.trades[k])]]
    /\ UNCHANGED <<backtester, twin, file, signal_call, exit_call>>

NextSave ==
    \/ Next
    \/ SaveResults
    \/ LoadResults

\* runs over a daily frame whose result is saved and loaded again
SpecSave == InitErr /\ [][NextSave]_vars

\* generate_merino_signal(df, df, current_price) called on a series of any
\* kind
GenerateMerinoSignal ==
    /\ \E kind \in SeriesKinds :
       \E price \in SignalPrices :
       \E snap \in SeriesReadings(kind, price) :
          signal_call' = [kind |-> kind, price |-> price, readings |-> snap,
                          result |-> generate_merino_signal(snap, price)]
    /\ UNCHANGED <<backtester, twin, file, loaded, exit_call>>

NextSignal ==
    \/ GenerateMerinoSignal

\* calls of the signal generator on its own
SpecSignal == InitErr /\ [][NextSignal]_vars

\* _check_open_positions(symbol, current_time, current_price, df) called on
\* a backtester that holds a LONG or a SHORT position of the symbol
CheckOpenPositions ==
    /\ \E snap \in {x \in Snapshots(100) : Tradeable(generate_merino_signal(x, 100))} :
       \E current_time \in ExitTimes :
       \E current_price \in ExitPrices :
       \E ema_11 \in Ema11s(current_price) :
          exit_call' =
             [trade |-> HoldingOne(snap).open[Symbols[1]],
              current_time |-> current_time,
              current_price |-> current_price,
              ema_11 |-> ema_11,
              after |-> check_open_positions(HoldingOne(snap), Symbols[1],
                                             current_time, current_price, ema_11)]
    /\ UNCHANGED <<backtester, twin, file, loaded, signal_call>>

NextExit ==
    \/ CheckOpenPositions

\* calls of the exit check on its own
SpecExit == InitErr /\ [][NextExit]_vars

\* MerinoBacktester(initial_capital = 0)
InitZeroCapital == Construct(0) /\ bar_hours = 24

\* runs over a daily frame of a backtester constructed with no capital
SpecZeroCapital == InitZeroCapital /\ [][Next]_vars

\* ------------------------------------------------- two runs side by side
\* The rows of a fetched frame after the indicator buffer.  A row carries
\* its bar and what the indicator libraries report for the window that ends
\* at it: the bullish and the bearish trend snapshot
FrameRows ==
    UNION { { [bar |-> b, snap |-> s] :
                s \in { x \in Snapshots(b.close) :
                          /\ x.adx = 55
                          /\ x.ema_11 = b.close
                          /\ Abs(x.momentum10) = 40
                          /\ (x.ema_55 < b.close <=> x.momentum10 > 0) } } :
            b \in { x \in BarSet : x.close # 101 } }

Frames == [1 .. MaxBars -> FrameRows]

\* the frame handed to the per-bar calls when the whole frame is passed
current_df_whole(df, i) == df

\* current_df = df.iloc[:i+1]
current_df(df, i) == SubSeq(df, 1, i)

\* One iteration of the bar loop on a fetched daily frame, as a function of
\* the backtester's fields: the price is df.iloc[i]['close'], the exit
\* check and the signal read the indicators at the last row (.iloc[-1]) of
\* the frame they are given
process_bar(st, symbol, df, i) ==
    LET window == current_df(df, i)
        readings == window[Len(window)].snap
        current_time == BarTime(i, 24)
        current_price == df[i].bar.close
        st1 == check_open_positions(st, symbol, current_time, current_price,
                                    readings.ema_11)
        st2 == IF Flat(st1, symbol)
               THEN check_entry_signal(st1, symbol, current_time, current_price,
                                       readings, FALSE)
               ELSE st1
    IN [capital |-> st2.capital,
        open |-> st2.open,
        trades |-> st2.trades,
        values |-> IF HourOf(current_time) = 0
                   THEN Append(st.values,
                               <<current_time, calculate_portfolio_value(st2)>>)
                   ELSE st.values]

\* _reset_backtest that leaves the ledger alone
reset_backtest_keeping_trades(st) == [Fresh EXCEPT !.trades = st.trades]

\* _reset_backtest: capital back to initial_capital, the three collections
\* cleared
reset_backtest(st) ==
    [capital |-> InitialCapital, open |-> <<>>, trades |-> <<>>, values |-> <<>>]

\* run_backtest after the symbol loop: _close_all_positions(end_date)
finish_run(st) ==
    LET closed == close_all_positions(st)
    IN [capital |-> closed.capital, open |-> closed.open,
        trades |-> closed.trades, values |-> st.values]

\* run_backtest is called on both backtesters, which reset and fetch the
\* frame of the symbol
TwinGetHistoricalData ==
    /\ twin.run = 0
    /\ \E df_a \in Frames : \E df_b \in Frames :
          twin' = [twin EXCEPT !.df_a = df_a, !.df_b = df_b, !.run = 1,
                               !.a = reset_backtest(@), !.b = reset_backtest(@)]
    /\ UNCHANGED run

\* both backtesters process bar i of their frame
TwinProcessBar ==
    /\ twin.run > 0
    /\ ~twin.returned
    /\ twin.i < MaxBars
    /\ twin' = [twin EXCEPT
                  !.i = @ + 1,
                  !.a = process_bar(@, Symbols[1], twin.df_a, twin.i + 1),
                  !.b = process_bar(@, Symbols[1], twin.df_b, twin.i + 1)]
    /\ UNCHANGED run

\* both bar loops are exhausted: open positions are closed and run_backtest
\* returns
TwinCloseAllPositions ==
    /\ twin.run > 0
    /\ ~twin.returned
    /\ twin.i = MaxBars
    /\ twin' = [twin EXCEPT !.returned = TRUE,
                            !.a = finish_run(@), !.b = finish_run(@)]
    /\ UNCHANGED run

\* run_backtest is called a second time on b, and on a new backtester a,
\* both with the frame a was given before
TwinRunBacktestAgain ==
    /\ twin.run = 1
    /\ twin.returned
    /\ twin' = [twin EXCEPT !.run = 2, !.returned = FALSE, !.i = 0,
                            !.df_b = twin.df_a,
                            !.differs = (twin.b.trades # twin.a.trades),
                            !.a = reset_backtest(Fresh),
                            !.b = reset_backtest(@)]
    /\ UNCHANGED run

NextTwin ==
    \/ TwinGetHistoricalData
    \/ TwinProcessBar
    \/ TwinCloseAllPositions
    \/ TwinRunBacktestAgain

\* two runs of the bar loop of one symbol over two fetched frames
SpecTwin == InitErr /\ [][NextTwin]_vars

\* ------------------------------------------------------------- properties
\* the identity of a trade: the fields _open_position sets and nothing
\* changes afterwards
SameTrade(a, b) ==
    /\ a.symbol = b.symbol
    /\ a.entry_time = b.entry_time
    /\ a.entry_price = b.entry_price
    /\ a.signal_type = b.signal_type
    /\ a.position_size = b.position_size

\* the ledger entries a step appends
Appended == (Len(trades) + 1) .. Len(trades')

\* C1: open_positions holds, under each symbol, one open trade of that
\* symbol, and no step overwrites or loses an open trade: after every step
\* each open trade is either still the trade open under its symbol or has
\* been appended to the ledger, so a position is only opened for a symbol
\* with no entry.
OneOpenTradePerSymbol ==
    /\ [](\A s \in DOMAIN open_positions :
             /\ open_positions[s].symbol = s
             /\ open_positions[s].exit_reason = "")
    /\ [][\A s \in DOMAIN open_positions :
             \/ /\ s \in DOMAIN open_positions'
                /\ SameTrade(open_positions[s], open_positions'[s])
             \/ \E i \in Appended : SameTrade(open_positions[s], trades'[i])
         ]_vars

\* a position was held across a later bar of its symbol
HeldAcrossBar ==
    \E s \in DOMAIN open_positions :
        /\ s \in DOMAIN last_bar
        /\ last_bar[s].time > open_positions[s].entry_time

\* C2: every trade of the ledger has one of the six exit reasons and an
\* exit time not before its entry time.
ClosedTradesWellFormed ==
    \A i \in 1 .. Len(trades) :
        /\ trades[i].exit_reason \in {"TARGET_1", "TARGET_2", "STOP_LOSS",
                                      "INVALIDATION", "TIME_LIMIT", "END_OF_TEST"}
        /\ trades[i].exit_time >= trades[i].entry_time

\* the ledger of a finished run holds a trade closed by a bar and a later
\* trade closed at the end of the test
LedgerWithBarAndEndExits ==
    /\ pc = "done"
    /\ \E i, j \in 1 .. Len(trades) :
          /\ trades[i].exit_reason # "END_OF_TEST"
          /\ trades[j].exit_reason = "END_OF_TEST"
          /\ trades[j].entry_time > start_date

\* C3: a trade is finalized exactly once.  The ledger never holds a trade
\* that is still open nor the same trade twice; every step keeps the ledger
\* it found as a prefix, entry by entry, and each entry it appends is a trade
\* that was open before the step, is no longer the open trade of its symbol
\* after it, and has its exit fields set.
FinalizedExactlyOnce ==
    /\ [](/\ \A s \in DOMAIN open_positions : \A i \in 1 .. Len(trades) :
                ~SameTrade(open_positions[s], trades[i])
          /\ \A i, j \in 1 .. Len(trades) :
                SameTrade(trades[i], trades[j]) => i = j)
    /\ [][/\ Len(trades') >= Len(trades)
          /\ \A i \in 1 .. Len(trades) : trades'[i] = trades[i]
          /\ \A i \in Appended :
                LET s == trades'[i].symbol
                IN /\ s \in DOMAIN open_positions
                   /\ SameTrade(open_positions[s], trades'[i])
                   /\ s \in DOMAIN open_positions' =>
                          ~SameTrade(open_positions'[s], trades'[i])
                   /\ trades'[i].exit_time # None
                   /\ trades'[i].exit_price # None
                   /\ trades'[i].exit_reason # ""
         ]_vars

\* a symbol has a closed trade in the ledger and a later trade open
ClosedAndReopened ==
    \E s \in DOMAIN open_positions : \E i \in 1 .. Len(trades) :
        /\ trades[i].symbol = s
        /\ trades[i].exit_time = open_positions[s].entry_time

\* position_size + pnl of the ledger entries from index k on
RECURSIVE CreditedFrom(_, _)
CreditedFrom(ledger, k) ==
    IF k > Len(ledger) THEN 0
    ELSE ledger[k].position_size + ledger[k].pnl + CreditedFrom(ledger, k + 1)

\* C4: when run_backtest returns open_positions is empty, and the step that
\* ends the run appends every position still open to the ledger with
\* exit_reason END_OF_TEST and credits position_size + pnl of each to capital.
AllClosedAtReturn ==
    /\ [](pc = "done" => open_positions = <<>>)
    /\ [][pc' = "done" =>
            /\ Len(trades') = Len(trades) + Cardinality(DOMAIN open_positions)
            /\ \A s \in DOMAIN open_positions : \E i \in Appended :
                  /\ SameTrade(open_positions[s], trades'[i])
                  /\ trades'[i].exit_reason = "END_OF_TEST"
            /\ current_capital' = current_capital + CreditedFrom(trades', Len(trades) + 1)
         ]_vars

\* a run returned after force-closing the positions of both symbols
BothForceClosed ==
    /\ pc = "done"
    /\ \E i, j \in 1 .. Len(trades) :
          /\ trades[i].symbol # trades[j].symbol
          /\ trades[i].exit_reason = "END_OF_TEST"
          /\ trades[j].exit_reason = "END_OF_TEST"
          /\ trades[i].position_size > 0
          /\ trades[j].position_size > 0

\* C5: a position force-closed at the end of the test gets as exit_price the
\* close of the last processed bar of its symbol.
EndOfTestAtLastKnownPrice ==
    \A i \in 1 .. Len(trades) :
        trades[i].exit_reason = "END_OF_TEST" =>
            /\ trades[i].symbol \in DOMAIN last_bar
            /\ trades[i].exit_price = last_bar[trades[i].symbol].close

\* the low (LONG) or the high (SHORT) of the bar reaches the stop-loss
StopTouched(trade, b) ==
    \/ trade.signal_type = "LONG"  /\ b.low * 100 <= trade.stop_loss
    \/ trade.signal_type = "SHORT" /\ b.high * 100 >= trade.stop_loss

\* pnl_percentage, in basis points, is -2% to within half a percent
AboutMinusTwoPercent(trade) ==
    trade.pnl_percentage >= 0 - 250 /\ trade.pnl_percentage <= 0 - 150

\* C6: a position whose stop-loss is reached by the low (LONG) or the high
\* (SHORT) of a later bar is closed on that bar, and a trade closed with
\* STOP_LOSS has a pnl_percentage of about -2%.
StopLossOnBarExtreme ==
    /\ \A s \in DOMAIN open_positions :
          (s \in DOMAIN last_bar /\ last_bar[s].time > open_positions[s].entry_time)
              => ~StopTouched(open_positions[s], last_bar[s])
    /\ \A i \in 1 .. Len(trades) :
          trades[i].exit_reason = "STOP_LOSS" => AboutMinusTwoPercent(trades[i])

\* C7: a trade closed with TIME_LIMIT was held for more than 48 hours and met
\* neither its stop-loss nor a target at the exit price, and no position
\* stays open after a bar of its symbol more than 48 hours after its entry.
TimeLimitAfter48Hours ==
    /\ \A i \in 1 .. Len(trades) :
          trades[i].exit_reason = "TIME_LIMIT" =>
              /\ trades[i].duration_hours > MaxHoldHours
              /\ ~StopLossHit(trades[i], trades[i].exit_price)
              /\ TargetReason(trades[i], trades[i].exit_price) = ""
    /\ \A s \in DOMAIN open_positions :
          s \in DOMAIN last_bar =>
              last_bar[s].time - open_positions[s].entry_time <= MaxHoldHours

\* a trade was closed with TIME_LIMIT
ClosedByTimeLimit ==
    \E i \in 1 .. Len(trades) : trades[i].exit_reason = "TIME_LIMIT"

\* the trades of a symbol, closed or open
TradesOf(s) ==
    {trades[i] : i \in {j \in 1 .. Len(trades) : trades[j].symbol = s}}
    \cup (IF s \in DOMAIN open_positions THEN {open_positions[s]} ELSE {})

\* the symbols with a trade closed by one of their bars
ClosedByBar ==
    {trades[i].symbol : i \in {j \in 1 .. Len(trades) :
                                   trades[j].exit_reason # "END_OF_TEST"}}

\* C8 as stated: on a rising series with LONG signals of strength 90, a
\* symbol one of whose trades was closed by a bar has exactly one trade, and
\* that trade was closed with TARGET_2 and a positive pnl.
RisingSeriesOneTradeTarget2 ==
    rising_long_90 =>
        \A s \in ClosedByBar :
            /\ Cardinality(TradesOf(s)) = 1
            /\ \A t \in TradesOf(s) : t.exit_reason = "TARGET_2" /\ t.pnl > 0

\* C8: on a rising series with LONG signals of strength 90 every trade is a
\* LONG of strength 90; a symbol holds, from its first evaluated bar on, a
\* position, the first one opened on that bar; a trade closed by a bar was
\* closed with TARGET_1, TARGET_2 or TIME_LIMIT and a positive pnl, and a new
\* LONG was opened on the bar that closed it; and when the run returns each
\* symbol that traded has a trade closed with END_OF_TEST.
RisingSeriesLongsCloseInProfit ==
    rising_long_90 =>
        /\ (pc = "bars" /\ barIdx >= 2) =>
              /\ CurrentSymbol \in DOMAIN open_positions
              /\ \E t \in TradesOf(CurrentSymbol) : t.entry_time = start_date
        /\ pc = "done" =>
              \A i \in 1 .. Len(trades) :
                  \E t \in TradesOf(trades[i].symbol) : t.exit_reason = "END_OF_TEST"
        /\ \A s \in DOMAIN open_positions :
              /\ open_positions[s].signal_type = "LONG"
              /\ open_positions[s].signal_strength = 90
        /\ \A i \in 1 .. Len(trades) :
              /\ trades[i].signal_type = "LONG"
              /\ trades[i].signal_strength = 90
              /\ trades[i].exit_reason # "END_OF_TEST" =>
                    /\ trades[i].exit_reason \in {"TARGET_1", "TARGET_2", "TIME_LIMIT"}
                    /\ trades[i].pnl > 0
                    /\ \E t \in TradesOf(trades[i].symbol) :
                          t.entry_time = trades[i].exit_time

\* a rising run returned with a trade closed at its first target, a trade held
\* through a bar and a trade closed at the end of the test
RisingRunReturned ==
    /\ rising_long_90
    /\ pc = "done"
    /\ bars_left = 0
    /\ \E i, j \in 1 .. Len(trades) :
          /\ trades[i].exit_reason = "TARGET_1"
          /\ trades[j].exit_reason = "END_OF_TEST"
          /\ trades[j].symbol = trades[i].symbol

\* C9: with an ADX below 20 the signal is WAIT, WAIT_SQUEEZE or NO_SIGNAL, and
\* a run in which every computed ADX was below 20 has no closed trade, no open
\* position and its starting capital.
NoTradeBelowAdx20 ==
    /\ \A b \in BarSet : \A snap \in Snapshots(b.close) :
          snap.adx < 20 =>
              generate_merino_signal(snap, b.close).signal
                  \in {"WAIT", "WAIT_SQUEEZE", "NO_SIGNAL"}
    /\ adx_below_20 =>
          /\ trades = <<>>
          /\ open_positions = <<>>
          /\ current_capital = InitialCapital

\* a run of MaxBars bars, each with an ADX below 20, returned
QuietRunReturned ==
    /\ adx_below_20
    /\ pc = "done"
    /\ bars_left = 0

InsufficientDataSkipsSymbol ==
    /\ [](\A klines \in Klines :
             (klines = None \/ klines < MinBars)
                 => Insufficient(get_historical_data(klines)))
    /\ [](last_error = "data" =>
             /\ pc = "symbol"
             /\ symIdx \in 2 .. Len(Symbols) + 1)
    /\ [][last_error' = "data" =>
             /\ symIdx' = symIdx + 1
             /\ UNCHANGED <<current_capital, trades, open_positions,
                            daily_portfolio_values>>
         ]_vars

\* the first symbol was skipped for insufficient data and the second is next
FirstSymbolSkipped ==
    /\ last_error = "data"
    /\ symIdx = 2
    /\ bars_left = MaxBars

\* C12: a call of _open_position for a symbol that has an open position is
\* fatal: it changes neither the open positions nor the capital nor the
\* ledger.
ReopenIsFatal ==
    [][last_error' = "reopen" =>
          UNCHANGED <<open_positions, current_capital, trades>>]_vars

\* C13: the decisions taken at bar i depend only on bars 0..i: two runs
\* whose frames agree up to and including the last processed bar have the
\* same open positions, ledger, capital and equity samples, whatever the
\* later bars of the two frames are
NoLookahead ==
    SubSeq(twin.df_a, 1, twin.i) = SubSeq(twin.df_b, 1, twin.i)
        => twin.a = twin.b

\* two frames that agree on the first two bars and differ afterwards, after
\* two bars on which a trade was closed and another opened
TwinsAgreeBeforeFramesDiffer ==
    /\ twin.i = 2
    /\ SubSeq(twin.df_a, 1, 2) = SubSeq(twin.df_b, 1, 2)
    /\ twin.df_a # twin.df_b
    /\ twin.a.trades # <<>>
    /\ twin.a.open # <<>>
    /\ Len(twin.a.values) = 2

\* C14: run_backtest is deterministic and independent of earlier runs: a
\* run on a backtester that has completed another run goes, step by step
\* and up to its return, through the same capital, open positions, ledger
\* and equity series as the same run on a new backtester
RunIndependentOfEarlierRuns ==
    twin.run = 2 => twin.a = twin.b

\* the second run has returned with a ledger, on a backtester whose earlier
\* run had produced another ledger than the same frame had given
SecondRunReturned ==
    /\ twin.run = 2
    /\ twin.returned
    /\ twin.differs
    /\ twin.b.trades # <<>>

\* C15: the win rate of a result is within [0,100], equals 100 times the
\* number of closed trades with P&L > 0 over the number of closed trades
\* (to the hundredth of a percent the model keeps), and is 0 when the
\* ledger is empty
WinRateOfLedger ==
    results.status = "returned" =>
        LET total == Len(trades)
            wins == Cardinality({k \in DOMAIN trades : trades[k].pnl > 0})
        IN /\ results.total_trades = total
           /\ results.winning_trades = wins
           /\ results.losing_trades = total - wins
           /\ results.win_rate \in 0 .. 10000
           /\ total = 0 => results.win_rate = 0
           /\ total > 0 => /\ results.win_rate * total <= 10000 * wins
                           /\ 10000 * wins < (results.win_rate + 1) * total

\* a result over a ledger that holds a winning trade, a losing trade and
\* one that broke even
MixedLedgerReturned ==
    /\ results.status = "returned"
    /\ results.win_rate \notin {0, 10000}
    /\ \E k \in DOMAIN trades : trades[k].pnl < 0
    /\ \E k \in DOMAIN trades : trades[k].pnl = 0

\* C16: _calculate_results never fails on a division: whatever the ledger,
\* the equity series and the starting capital of a completed run are, a
\* result is returned and every statistic in it is a number
DivisionsGuarded ==
    /\ pc # "raised"
    /\ results.status # "raised"
    /\ results.nan = {}

EquityOneSamplePerDayInOrder ==
    \A j \in DOMAIN daily_portfolio_values :
       \A k \in DOMAIN daily_portfolio_values :
          j < k => daily_portfolio_values[j][1] < daily_portfolio_values[k][1]

\* C19: generate_merino_signal never raises, and for a missing, empty or
\* too short series it returns the empty signal: action NO_SIGNAL, bias
\* NEUTRAL, strength 0, confluence 0
EmptySignalForUnusableSeries ==
    signal_call.kind \in {"none", "empty", "short"} =>
        /\ signal_call.result.signal = "NO_SIGNAL"
        /\ signal_call.result.bias = "NEUTRAL"
        /\ signal_call.result.signal_strength = 0
        /\ signal_call.result.confluence_score = 0

\* C20: on a bar where a position is open the close conditions are looked
\* at in the order stop-loss, target 2 else target 1, technical
\* invalidation, time limit; the first one that holds is the recorded exit
\* reason, and the position is closed at most once on that bar
ExitReasonByPriority ==
    exit_call # NoExitCall =>
        LET trade == exit_call.trade
            price == exit_call.current_price
            stop == StopLossHit(trade, price)
            target == TargetReason(trade, price)
            invalid == Invalidated(trade, price, exit_call.ema_11)
            late == TimeLimitHit(exit_call.current_time - trade.entry_time)
            closed == exit_call.after.trades
            reason == closed[1].exit_reason
        IN /\ Len(closed) <= 1
           /\ Len(closed) = 1 <=> (stop \/ target # "" \/ invalid \/ late)
           /\ Len(closed) = 1 <=> Symbols[1] \notin DOMAIN exit_call.after.open
           /\ Len(closed) = 1 =>
                /\ SameTrade(closed[1], trade)
                /\ closed[1].exit_time = exit_call.current_time
                /\ closed[1].exit_price = price
                /\ stop => reason = "STOP_LOSS"
                /\ ~stop /\ target # "" => reason = target
                /\ ~stop /\ target = "" /\ invalid => reason = "INVALIDATION"
                /\ ~stop /\ target = "" /\ ~invalid => reason = "TIME_LIMIT"
                /\ target = "TARGET_2" <=>
                      IF trade.signal_type = "LONG"
                      THEN price * 100 >= trade.target_2
                      ELSE price * 100 <= trade.target_2

\* a call on a bar beyond the time limit with the price on the wrong side
\* of the fast EMA, recorded as an invalidation
InvalidationBeforeTimeLimit ==
    /\ exit_call # NoExitCall
    /\ TimeLimitHit(exit_call.current_time - exit_call.trade.entry_time)
    /\ Invalidated(exit_call.trade, exit_call.current_price, exit_call.ema_11)
    /\ Len(exit_call.after.trades) = 1
    /\ exit_call.after.trades[1].exit_reason = "INVALIDATION"

\* the trades a step puts into open_positions
Opened ==
    { s \in DOMAIN open_positions' :
         \/ s \notin DOMAIN open_positions
         \/ ~SameTrade(open_positions[s], open_positions'[s]) }

\* every signal the generator can give on a bar, offered to a flat account:
\* the waiting signals are scored 25, the empty signal 0, and
\* _check_entry_signal opens a position exactly for LONG or SHORT with
\* signal_strength >= 50 and leaves the account alone otherwise
SignalsScoredAndGated ==
    \A b \in BarSet : \A snap \in Snapshots(b.close) :
       LET sig == generate_merino_signal(snap, b.close)
           flat == [capital |-> InitialCapital, open |-> <<>>, trades |-> <<>>]
           after == check_entry_signal(flat, Symbols[1], 0, b.close, snap, FALSE)
       IN /\ sig.signal \in {"WAIT", "WAIT_SQUEEZE"} => sig.signal_strength = 25
          /\ sig.signal = "NO_SIGNAL" => sig.signal_strength = 0
          /\ sig.signal \in {"LONG", "SHORT", "WAIT", "WAIT_SQUEEZE", "NO_SIGNAL"}
          /\ (sig.signal \in {"LONG", "SHORT"} /\ sig.signal_strength >= 50)
                <=> after.open # <<>>
          /\ after.open = <<>> => after = flat

\* C21: a position is opened only when the symbol is flat and the signal is
\* LONG or SHORT with strength >= 50.  WAIT and WAIT_SQUEEZE are scored 25
\* and NO_SIGNAL 0, none of them opens a position, and neither does a LONG
\* or SHORT signal with strength below 50
OpensOnlyOnStrongSignal ==
    /\ [](/\ SignalsScoredAndGated
          /\ \A s \in DOMAIN open_positions :
               /\ open_positions[s].signal_type \in {"LONG", "SHORT"}
               /\ open_positions[s].signal_strength >= 50)
    /\ [][\A s \in Opened :
             /\ pc = "bars"
             /\ s = CurrentSymbol
             /\ \/ s \notin DOMAIN open_positions
                \/ \E i \in Appended : SameTrade(open_positions[s], trades'[i])
             /\ open_positions'[s].entry_time = CurrentTime
         ]_vars

\* a position opened on a signal of middling strength while a trade of the
\* same symbol is in the ledger
OpenedAfterClose ==
    \E s \in DOMAIN open_positions :
       /\ open_positions[s].signal_strength \in 50 .. 79
       /\ \E k \in DOMAIN trades :
             /\ trades[k].symbol = s
             /\ trades[k].exit_time = open_positions[s].entry_time

\* the percentage of capital the spec gives to a signal strength
TierPercentage(strength) ==
    CASE strength \in 50 .. 59 -> 1
      [] strength \in 60 .. 69 -> 2
      [] strength \in 70 .. 79 -> 3
      [] strength >= 80 -> 5

\* capitals an account can hold when a position is opened
SizedCapitals == {100, 12345, 950000, InitialCapital, 1234567}

\* _open_position for every tradeable strength and a range of capitals:
\* the size is the tier's percentage of the capital, at most a fifth of the
\* capital, and the capital goes down by exactly the size
SizedByTier ==
    \A capital \in SizedCapitals : \A strength \in MinStrength .. 100 :
       LET sig == [signal |-> "LONG", signal_strength |-> strength, bias |-> "BULLISH", confluence_score |-> 4]
           flat == [capital |-> capital, open |-> <<>>, trades |-> <<>>]
           after == open_position(flat, Symbols[1], 0, 100, sig)
           size == after.open[Symbols[1]].position_size
       IN /\ size = Quot(capital * TierPercentage(strength), 100)
          /\ size * 100 <= capital * 20
          /\ after.capital = capital - size

\* C22: an opened position's size is the strength-tiered percentage of the
\* capital available at that moment (1% for 50-59, 2% for 60-69, 3% for
\* 70-79, 5% from 80), never more than 20% of that capital, and the
\* available capital is reduced by exactly that size
PositionSizedByStrength ==
    /\ []SizedByTier
    /\ [][\A s \in Opened :
             LET available == current_capital + CreditedFrom(trades', Len(trades) + 1)
                 trade == open_positions'[s]
             IN /\ trade.position_size = Quot(available * TierPercentage(trade.signal_strength), 100)
                /\ trade.position_size * 100 <= available * 20
                /\ current_capital' = available - trade.position_size
         ]_vars

\* positions of two different tiers are open, the second sized on the
\* capital the first one left
TwoTiersOpen ==
    \E s, t \in DOMAIN open_positions :
       /\ open_positions[s].signal_strength \in 60 .. 69
       /\ open_positions[t].signal_strength >= 80
       /\ open_positions[s].position_size # 0
       /\ open_positions[t].position_size * 100 # InitialCapital * 5

\* the sizes of the trades a step puts into open_positions
RECURSIVE OpenedSizes(_)
OpenedSizes(S) ==
    IF S = {} THEN 0
    ELSE LET s == CHOOSE x \in S : TRUE
         IN open_positions'[s].position_size + OpenedSizes(S \ {s})

\* C23: on every close the P&L is the directional price delta (exit - entry
\* for LONG, entry - exit for SHORT) times position size divided by entry
\* price, the achieved risk/reward is the realized reward divided by the
\* distance from entry to stop-loss, and the available capital goes up by
\* exactly position size + P&L
CloseBooksPnlAndCredit ==
    /\ [](\A k \in DOMAIN trades :
            LET t == trades[k]
                delta == IF t.signal_type = "LONG" THEN t.exit_price - t.entry_price
                         ELSE t.entry_price - t.exit_price
                reward == IF delta >= 0 THEN delta ELSE 0 - delta
                risk100 == IF t.signal_type = "LONG" THEN t.entry_price * 100 - t.stop_loss
                           ELSE t.stop_loss - t.entry_price * 100
            IN /\ t.pnl = Quot(delta * t.position_size, t.entry_price)
               /\ risk100 > 0
               /\ t.risk_reward_achieved = Quot(reward * 10000, risk100))
    /\ [][Appended # {} =>
            current_capital' + OpenedSizes(Opened)
               = current_capital + CreditedFrom(trades', Len(trades) + 1)
         ]_vars

\* the ledger holds a SHORT closed at a loss and a LONG closed at a gain
ShortLossAndLongGain ==
    /\ \E k \in DOMAIN trades :
          /\ trades[k].signal_type = "SHORT"
          /\ trades[k].pnl < 0
          /\ trades[k].risk_reward_achieved > 0
    /\ \E k \in DOMAIN trades :
          /\ trades[k].signal_type = "LONG"
          /\ trades[k].pnl > 0

\* the generator was called on a full series and no step of it raised
FullCall == signal_call.kind = "full" /\ ~signal_call.readings.fails

\* the names of the five actions; WAIT_SQUEEZE is the wait for a breakout
\* of a compressed market
SignalNames == {"LONG", "SHORT", "WAIT", "WAIT_SQUEEZE", "NO_SIGNAL"}

ComputedCall == signal_call # NoCall /\ ~signal_call.readings.fails

\* how many of the conditions in S hold
Count(S) == Cardinality({c \in S : c[2]})

StopLossTighterOfTwo ==
    signal_call # NoCall =>
       LET result == signal_call.result
           levels == result.trading_levels
           entry == signal_call.price * 1000
           fixed == IF result.signal = "LONG" THEN signal_call.price * 980
                    ELSE signal_call.price * 1020
           buffer == IF result.signal = "LONG" THEN signal_call.readings.ema_11 * 995
                     ELSE signal_call.readings.ema_11 * 1005
           tighter == IF Abs(buffer - entry) < Abs(fixed - entry) THEN buffer ELSE fixed
       IN /\ result.signal \in {"LONG", "SHORT"} =>
               /\ levels.stop_loss = tighter
               /\ Abs(levels.stop_loss - entry) * 100 <= entry * 2
          /\ result.signal \notin {"LONG", "SHORT"} =>
               \/ levels = <<>>
               \/ levels.targets = <<>> /\ levels.stop_loss = None

\* the P&L of the first n entries of the ledger
RECURSIVE RealizedPnl(_)
RealizedPnl(n) == IF n = 0 THEN 0 ELSE trades[n].pnl + RealizedPnl(n - 1)

\* the position sizes of the open trades
RECURSIVE SizesHeld(_)
SizesHeld(S) ==
    IF S = {} THEN 0
    ELSE LET s == CHOOSE x \in S : TRUE
         IN open_positions[s].position_size + SizesHeld(S \ {s})

\* C27: between bar steps the available capital plus the position sizes of
\* the open positions equals the starting capital plus the P&L of the closed
\* trades; every equity sample is the starting capital plus the P&L realized
\* when it was taken, whatever the price of the open positions
CapitalConserved ==
    /\ current_capital + SizesHeld(DOMAIN open_positions)
          = initial_capital + RealizedPnl(Len(trades))
    /\ \A k \in DOMAIN daily_portfolio_values :
          \E n \in 0 .. Len(trades) :
             /\ daily_portfolio_values[k][2] = initial_capital + RealizedPnl(n)
             /\ k = Len(daily_portfolio_values) /\ pc = "bars" => n = Len(trades)

\* a sample taken while a position was open and the ledger held a loss and
\* a gain that do not cancel
SampledWithOpenAndRealized ==
    /\ pc = "bars"
    /\ open_positions # <<>>
    /\ Len(trades) >= 2
    /\ \E i, j \in DOMAIN trades : trades[i].pnl < 0 /\ trades[j].pnl > 0
    /\ RealizedPnl(Len(trades)) # 0
    /\ daily_portfolio_values # <<>>
    /\ daily_portfolio_values[Len(daily_portfolio_values)][2]
          = initial_capital + RealizedPnl(Len(trades))

\* C28: the trades of one symbol never overlap in time: of two ledger
\* entries of the same symbol the one appended later was entered at or
\* after the exit of the earlier one, and so was the symbol's open position
TradesOfSymbolDoNotOverlap ==
    /\ \A i \in DOMAIN trades : \A j \in DOMAIN trades :
          i < j /\ trades[i].symbol = trades[j].symbol =>
             /\ trades[i].entry_time <= trades[i].exit_time
             /\ trades[j].entry_time >= trades[i].exit_time
    /\ \A i \in DOMAIN trades : \A s \in DOMAIN open_positions :
          trades[i].symbol = s => open_positions[s].entry_time >= trades[i].exit_time

\* the ledger holds two trades of one symbol, the second entered on the bar
\* that closed the first and held for at least one bar
ReenteredOnClosingBar ==
    \E i \in DOMAIN trades : \E j \in DOMAIN trades :
       /\ i < j
       /\ trades[i].symbol = trades[j].symbol
       /\ trades[j].entry_time = trades[i].exit_time
       /\ trades[j].exit_time > trades[j].entry_time

\* every signal of the generator that _check_entry_signal trades has a
\* confluence score of 2, 3 or 4 and a strength in exactly one bucket
TradeableSignalsBucketed ==
    \A price \in SignalPrices : \A snap \in SeriesReadings("full", price) :
       LET sig == generate_merino_signal(snap, price)
       IN Tradeable(sig) =>
             /\ sig.confluence_score \in {2, 3, 4}
             /\ Cardinality({b \in {"high", "medium", "low"} :
                   \/ b = "high" /\ sig.signal_strength >= 80
                   \/ b = "medium" /\ sig.signal_strength \in 60 .. 79
                   \/ b = "low" /\ sig.signal_strength \in 50 .. 59}) = 1

\* C29: every trade of the ledger has signal strength >= 50 and a
\* confluence count of 2, 3 or 4, so in every result the strength buckets
\* add up to total_trades and so do the confluence buckets
BucketsPartitionLedger ==
    /\ TradeableSignalsBucketed
    /\ \A k \in DOMAIN trades :
          /\ trades[k].signal_strength >= 50
          /\ trades[k].confluence_score \in {2, 3, 4}
    /\ results.status = "returned" =>
          /\ results.total_trades = Len(trades)
          /\ results.high_strength_trades + results.medium_strength_trades
                + results.low_strength_trades = results.total_trades
          /\ results.four_confluence_trades + results.three_confluence_trades
                + results.two_confluence_trades = results.total_trades

\* a result over a ledger with trades in two strength buckets and three
\* confluence buckets
ResultWithSeveralBuckets ==
    /\ results.status = "returned"
    /\ results.high_strength_trades > 0
    /\ results.medium_strength_trades > 0
    /\ results.four_confluence_trades > 0
    /\ results.three_confluence_trades > 0
    /\ results.two_confluence_trades > 0

\* C30: in a run started with positive capital over bars with positive
\* prices the available capital is never negative, whatever LONG and SHORT
\* positions are opened and closed and however far the price has moved
CapitalNeverNegative ==
    /\ current_capital >= 0
    /\ exit_call.after.capital >= 0

====
